---- MODULE Spec2Model ----
(***************************************************************************)
(* The migration engine of migrate.go: the lock coordinator (lock, unlock, *)
(* unlockErr), the planners (read, readUp, readDown), the runner           *)
(* (runMigrations) and the cancellation poll (stop), driven by the public  *)
(* operations Migrate, Steps, Up, Down and Drop, against the stub database *)
(* driver.                                                                 *)
(*                                                                         *)
(* Every public operation runs on its caller's goroutine; the planner of   *)
(* an operation runs on a goroutine of its own (go m.read / m.readUp /     *)
(* m.readDown) and talks to the runner through the channel ret.  A step of *)
(* the model is one access to state that goroutines share: a channel       *)
(* operation, the mutex-guarded body of lock or unlock, a driver call, a   *)
(* read or a write of isGracefulStop.                                      *)
(***************************************************************************)
EXTENDS Integers, Sequences, FiniteSets, TLC

\* ------------------------------------------------------------------ bounds

\* Source versions are drawn from 0..MaxVersion.
MaxVersion == 2
\* PrefetchMigrations is drawn from 0..MaxPrefetch.
MaxPrefetch == 1
\* Steps(n) is called with -MaxSteps <= n <= MaxSteps.
MaxSteps == 3
\* Public operations called in one behaviour.
MaxOps == 2
\* Driver calls that fail in one behaviour.
MaxFaults == 1
\* GracefulStop signals sent in one behaviour.
MaxSignals == 1
\* Operations called in a behaviour that follows the buffering tasks.
MaxPipelineOps == 1
\* Operations called in a behaviour under fair scheduling.
MaxFairOps == 1

\* The goroutines that call the engine's public operations.
Callers == {"a", "b"}
\* The caller of the behaviours with one caller.
OneCaller == {"a"}

Versions == 0..MaxVersion

\* database.NilVersion
NilVersion == -1

\* ------------------------------------------------------------- error values

Err(e, short) == [e |-> e, short |-> short]
Nil == Err("nil", 0)
ErrNoChange == Err("NoChange", 0)
ErrLocked == Err("Locked", 0)
ErrNotExist == Err("NotExist", 0)
ErrShortLimit(short) == Err("ShortLimit", short)
\* An error of the database driver (an opaque value to the engine).
ErrDriver == Err("Driver", 0)
\* database.ErrLocked, the stub's answer to Lock while it is locked.
ErrDriverLocked == Err("DriverLocked", 0)

\* NewMultiError(prevErr, err): the two errors, in this order.
NewMultiError(prevErr, err) == [multi |-> TRUE, err |-> prevErr, unlock |-> err]
\* A plain error value (or nil) as a return value.
Plain(err) == [multi |-> FALSE, err |-> err, unlock |-> Nil]

\* ---------------------------------------------------------- uint arguments

\* A uint argument.  [high |-> FALSE, n |-> k] is the value k;
\* [high |-> TRUE, n |-> k] is the value 2^w - k of a w-bit uint (k >= 1),
\* the largest values of the type.
Uint(k) == [high |-> FALSE, n |-> k]
UintHigh(k) == [high |-> TRUE, n |-> k]

\* int(version): a value below 2^(w-1) is kept, and 2^w - k is read in two's
\* complement as -k.
IntOfUint(u) == IF u.high THEN 0 - u.n ELSE u.n

\* ------------------------------------------------------------ source driver

\* The versions ReadUp / ReadDown have a payload for.
VARIABLES srcUp, srcDown

\* The source's index: a version is present iff ReadUp or ReadDown yields a
\* stream; First, Next and Prev walk the same index.
Index == srcUp \cup srcDown

SetMin(S) == CHOOSE x \in S : \A y \in S : x <= y
SetMax(S) == CHOOSE x \in S : \A y \in S : x >= y

\* sourceDrv.First(): the smallest version, NotExist for an empty index.
HasFirst == Index # {}
sourceDrvFirst == SetMin(Index)
\* sourceDrv.Next(v): the next version after v, NotExist when there is none.
After(v) == {x \in Index : x > v}
HasNext(v) == v \in Index /\ After(v) # {}
sourceDrvNext(v) == SetMin(After(v))
\* sourceDrv.Prev(v): the version before v, NotExist when there is none.
Before(v) == {x \in Index : x < v}
HasPrev(v) == v \in Index /\ Before(v) # {}
sourceDrvPrev(v) == SetMax(Before(v))

\* versionExists(version) = nil
versionExists(version) == version \in srcUp \/ version \in srcDown

\* ------------------------------------------------------- channel elements

Migr(version, targetVersion, body) ==
  [type |-> "migr", version |-> version, target |-> targetVersion,
   body |-> body, err |-> Nil]
ErrItem(err) ==
  [type |-> "err", version |-> 0, target |-> 0, body |-> FALSE, err |-> err]

\* newMigration(version, targetVersion): the up payload when
\* targetVersion >= version, else the down payload; an "empty" migration
\* (Body = nil) when the source has none.
newMigration(version, targetVersion) ==
  IF targetVersion >= version
  THEN Migr(version, targetVersion, version \in srcUp)
  ELSE Migr(version, targetVersion, version \in srcDown)

\* ------------------------------------------------------------------ planners
\*
\* A planner is a loop whose iterations each poll stop() and then send at
\* most two elements.  What an iteration decides is a Step: the elements it
\* sends, in order, whether the planner then goes back to the loop top
\* ("top") or returns ("close": the deferred close(ret)), and its locals.

Step(items, after, from, count) ==
  [items |-> items, after |-> after, from |-> from, count |-> count]

\* read(from, to), from its entry to the first loop top.
readEntry(from, to) ==
  IF from >= 0 /\ ~versionExists(from)
    THEN Step(<<ErrItem(ErrNotExist)>>, "close", from, 0)
  ELSE IF to >= 0 /\ ~versionExists(to)
    THEN Step(<<ErrItem(ErrNotExist)>>, "close", from, 0)
  ELSE IF from = to
    THEN Step(<<ErrItem(ErrNoChange)>>, "close", from, 0)
  ELSE IF from < to /\ from = -1
    THEN IF ~HasFirst
           THEN Step(<<ErrItem(ErrNotExist)>>, "close", from, 0)
           ELSE Step(<<newMigration(sourceDrvFirst, sourceDrvFirst)>>, "top",
                     sourceDrvFirst, 0)
  ELSE Step(<<>>, "top", from, 0)

\* read looping once more: "for from <= to", "for from >= to && from >= 0".
readLoopInclusive(up, from, to) ==
  IF up THEN from <= to ELSE from >= to /\ from >= 0

\* The loop conditions of read: "for from < to" when it is going up,
\* "for from > to && from >= 0" when it is going down.
readLoop(up, from, to) ==
  IF up THEN from < to ELSE from > to /\ from >= 0

\* read going down with every record's own version as its target.
readIterSelfTarget(up, from, to) ==
  IF up
  THEN IF ~HasNext(from)
         THEN Step(<<ErrItem(ErrNotExist)>>, "close", from, 0)
         ELSE Step(<<newMigration(sourceDrvNext(from), sourceDrvNext(from))>>,
                   "top", sourceDrvNext(from), 0)
  ELSE IF ~HasPrev(from) /\ to = -1
         THEN Step(<<newMigration(from, -1)>>, "close", from, 0)
       ELSE IF ~HasPrev(from)
         THEN Step(<<ErrItem(ErrNotExist)>>, "close", from, 0)
       ELSE Step(<<newMigration(from, from)>>, "top", sourceDrvPrev(from), 0)

\* One iteration of read's loop, after stop() returned false.
readIter(up, from, to) ==
  IF up
  THEN IF ~HasNext(from)
         THEN Step(<<ErrItem(ErrNotExist)>>, "close", from, 0)
         ELSE Step(<<newMigration(sourceDrvNext(from), sourceDrvNext(from))>>,
                   "top", sourceDrvNext(from), 0)
  ELSE IF ~HasPrev(from) /\ to = -1
         THEN Step(<<newMigration(from, -1)>>, "close", from, 0)
       ELSE IF ~HasPrev(from)
         THEN Step(<<ErrItem(ErrNotExist)>>, "close", from, 0)
       ELSE Step(<<newMigration(from, sourceDrvPrev(from))>>, "top",
                 sourceDrvPrev(from), 0)

\* The loop of readUp and readDown going round once more:
\* "for count <= limit || limit == -1".
limitLoopInclusive(limit, count) == count <= limit \/ limit = -1

\* readUp(from, limit) and readDown(from, limit) loop
\* "for count < limit || limit == -1".
limitLoop(limit, count) == count < limit \/ limit = -1

\* readUp(from, limit), from its entry to the first loop top.
readUpEntry(from, limit) ==
  IF from >= 0 /\ ~versionExists(from)
    THEN Step(<<ErrItem(ErrNotExist)>>, "close", from, 0)
  ELSE IF limit = 0
    THEN Step(<<ErrItem(ErrNoChange)>>, "close", from, 0)
  ELSE Step(<<>>, "top", from, 0)

\* readUp without its "no limit, but no migrations applied?" branch.
readUpIterSilent(from, limit, count) ==
  IF from = -1
  THEN IF ~HasFirst
         THEN Step(<<ErrItem(ErrNotExist)>>, "close", from, count)
         ELSE Step(<<newMigration(sourceDrvFirst, sourceDrvFirst)>>, "top",
                   sourceDrvFirst, count + 1)
  ELSE IF ~HasNext(from)
    THEN IF limit = -1
           THEN Step(<<>>, "close", from, count)
         ELSE IF limit > 0 /\ count = 0
           THEN Step(<<ErrItem(ErrNotExist)>>, "close", from, count)
         ELSE Step(<<ErrItem(ErrShortLimit(limit - count))>>, "close",
                   from, count)
  ELSE Step(<<newMigration(sourceDrvNext(from), sourceDrvNext(from))>>, "top",
            sourceDrvNext(from), count + 1)

\* One iteration of readUp's loop, after stop() returned false.
readUpIter(from, limit, count) ==
  IF from = -1
  THEN IF ~HasFirst
         THEN Step(<<ErrItem(ErrNotExist)>>, "close", from, count)
         ELSE Step(<<newMigration(sourceDrvFirst, sourceDrvFirst)>>, "top",
                   sourceDrvFirst, count + 1)
  ELSE IF ~HasNext(from)
    THEN IF limit = -1 /\ count = 0
           THEN Step(<<ErrItem(ErrNoChange)>>, "close", from, count)
         ELSE IF limit = -1
           THEN Step(<<>>, "close", from, count)
         ELSE IF limit > 0 /\ count = 0
           THEN Step(<<ErrItem(ErrNotExist)>>, "close", from, count)
         ELSE IF count < limit
           THEN Step(<<ErrItem(ErrShortLimit(limit - count))>>, "close",
                     from, count)
         ELSE Step(<<ErrItem(ErrNotExist)>>, "close", from, count)
  ELSE Step(<<newMigration(sourceDrvNext(from), sourceDrvNext(from))>>, "top",
            sourceDrvNext(from), count + 1)

\* readDown without its "no change if already at nil version" check.
readDownEntryUnchecked(from, limit) ==
  IF from >= 0 /\ ~versionExists(from)
    THEN Step(<<ErrItem(ErrNotExist)>>, "close", from, 0)
  ELSE IF limit = 0
    THEN Step(<<ErrItem(ErrNoChange)>>, "close", from, 0)
  ELSE IF from = -1 /\ limit > 0
    THEN Step(<<ErrItem(ErrNotExist)>>, "close", from, 0)
  ELSE Step(<<>>, "top", from, 0)

\* readDown(from, limit), from its entry to the first loop top.
readDownEntry(from, limit) ==
  IF from >= 0 /\ ~versionExists(from)
    THEN Step(<<ErrItem(ErrNotExist)>>, "close", from, 0)
  ELSE IF limit = 0
    THEN Step(<<ErrItem(ErrNoChange)>>, "close", from, 0)
  ELSE IF from = -1 /\ limit = -1
    THEN Step(<<ErrItem(ErrNoChange)>>, "close", from, 0)
  ELSE IF from = -1 /\ limit > 0
    THEN Step(<<ErrItem(ErrNotExist)>>, "close", from, 0)
  ELSE Step(<<>>, "top", from, 0)

\* readDown stopping at the first version, without the migration to -1.
readDownIterNoNil(from, limit, count) ==
  IF ~HasPrev(from)
  THEN IF count < limit
         THEN Step(<<ErrItem(ErrShortLimit(limit - count))>>, "close", from,
                   count)
         ELSE Step(<<>>, "close", from, count)
  ELSE Step(<<newMigration(from, sourceDrvPrev(from))>>, "top",
            sourceDrvPrev(from), count + 1)

\* readDown sending its ErrShortLimit ahead of the migration to -1.
readDownIterErrFirst(from, limit, count) ==
  IF ~HasPrev(from)
  THEN IF limit = -1 \/ limit - count > 0
         THEN IF ~HasFirst
                THEN Step(<<ErrItem(ErrNotExist)>>, "close", from, count)
              ELSE IF count + 1 < limit
                THEN Step(<<ErrItem(ErrShortLimit(limit - (count + 1))),
                            newMigration(sourceDrvFirst, -1)>>,
                          "close", from, count + 1)
              ELSE Step(<<newMigration(sourceDrvFirst, -1)>>, "close", from,
                        count + 1)
       ELSE IF count < limit
         THEN Step(<<ErrItem(ErrShortLimit(limit - count))>>, "close", from,
                   count)
       ELSE Step(<<>>, "close", from, count)
  ELSE Step(<<newMigration(from, sourceDrvPrev(from))>>, "top",
            sourceDrvPrev(from), count + 1)

\* One iteration of readDown's loop, after stop() returned false.
readDownIter(from, limit, count) ==
  IF ~HasPrev(from)
  THEN IF limit = -1 \/ limit - count > 0
         THEN IF ~HasFirst
                THEN Step(<<ErrItem(ErrNotExist)>>, "close", from, count)
              ELSE IF count + 1 < limit
                THEN Step(<<newMigration(sourceDrvFirst, -1),
                            ErrItem(ErrShortLimit(limit - (count + 1)))>>,
                          "close", from, count + 1)
              ELSE Step(<<newMigration(sourceDrvFirst, -1)>>, "close", from,
                        count + 1)
       ELSE IF count < limit
         THEN Step(<<ErrItem(ErrShortLimit(limit - count))>>, "close", from,
                   count)
       ELSE Step(<<>>, "close", from, count)
  ELSE Step(<<newMigration(from, sourceDrvPrev(from))>>, "top",
            sourceDrvPrev(from), count + 1)

\* -------------------------------------------------------------------- state

VARIABLES
  PrefetchMigrations, \* Migrate.PrefetchMigrations, the capacity of ret
  isLocked,           \* Migrate.isLocked
  isGracefulStop,     \* Migrate.isGracefulStop
  GracefulStop,       \* signals pending in the channel GracefulStop (cap. 1)
  CurrentVersion,     \* Stub.CurrentVersion
  IsLocked,           \* Stub.IsLocked
  pc,                 \* each caller's position in its public operation
  call,               \* each caller's operation: arguments, locals, record
  ret,                \* each operation's channel ret: [q, closed]
  planner,            \* each operation's planner goroutine
  last,               \* the operation that returned last
  budget,             \* operations, driver faults and signals left, and
                      \* whether last is kept (trace) and the
                      \* buffering tasks are followed (tasks)
  CurrentVersion2,    \* CurrentVersion of a second Stub, d2
  lastRun             \* the last Run called on each Stub directly

\* The second driver instance, which no engine uses.
instance2 == <<CurrentVersion2, lastRun>>

vars == <<srcUp, srcDown, PrefetchMigrations, isLocked, isGracefulStop,
          GracefulStop, CurrentVersion, IsLocked, pc, call, ret, planner,
          last, budget, CurrentVersion2, lastRun>>

\* The driver instances of the driver test: d and d2.
Instances == {"d", "d2"}
NoRun == [ran |-> FALSE, version |-> NilVersion, body |-> FALSE, ok |-> FALSE]

\* What a finished operation leaves for the one that follows it.
Summary(op, n, from, runs, result) ==
  [op |-> op, n |-> n, from |-> from, runs |-> runs, result |-> result]
NoSummary == Summary("none", 0, -1, <<>>, Plain(Nil))

\* A caller's operation.  op, version and n are the call; curVersion and r
\* are locals of the operation and of runMigrations; err is the value handed
\* to unlockErr.  The other fields record what the operation did: the
\* records run (runs, with runFailed when the last Run failed), the elements
\* its planner sent (sent), the calls of lock(), unlock() and of the driver's
\* Lock and Unlock, whether a driver call failed (faulted), whether a stop
\* signal was pending, latched or sent while it ran (cancel), how many Run
\* calls had succeeded when the signal was sent (sigAt, -1: none), whether a
\* stop() of the runner returned true (stopped), what unlock() returned
\* (unlockErr) and left in isLocked (lockedAtReturn), whether isGracefulStop
\* was set when it was called (latched), and the operation that returned
\* before it was called (pred).  tasks holds, for every element sent, the
\* state of its buffering task; got counts the elements the runner received;
\* early tells that a Run was called before its record was buffered.
NewCall(op, version, n, pred) ==
  [op |-> op, version |-> version, n |-> n, curVersion |-> -1,
   r |-> ErrItem(Nil), err |-> Nil, result |-> Plain(Nil), returned |-> FALSE,
   runs |-> <<>>, runFailed |-> FALSE, sent |-> <<>>,
   locks |-> 0, unlocks |-> 0, drvLocks |-> 0, drvUnlocks |-> 0,
   drvOthers |-> 0, faulted |-> FALSE, cancel |-> FALSE, sigAt |-> -1,
   stopped |-> FALSE, unlockErr |-> Nil, lockedAtReturn |-> FALSE,
   latched |-> FALSE, tasks |-> <<>>, got |-> 0, early |-> FALSE,
   pred |-> pred]

NoPlanner ==
  [pc |-> "off", kind |-> "none", up |-> FALSE, from |-> -1, arg |-> 0,
   count |-> 0, items |-> <<>>, after |-> "close"]

\* The public calls: Migrate(version uint), Steps(n int), Up(), Down(), Drop().
MigrateVersions ==
  {Uint(k) : k \in 0..(MaxVersion + 1)} \cup {UintHigh(1), UintHigh(2)}
Calls ==
  {[op |-> "Migrate", version |-> v, n |-> 0] : v \in MigrateVersions}
  \cup {[op |-> "Steps", version |-> Uint(0), n |-> k] :
          k \in (0 - MaxSteps)..MaxSteps}
  \cup {[op |-> o, version |-> Uint(0), n |-> 0] : o \in {"Up", "Down", "Drop"}}

\* A source: every version has an up payload, a down payload, both or none.
Sources == (SUBSET Versions) \X (SUBSET Versions)
\* The sources whose versions all have an up payload, and either all or
\* none a down payload.
PlainSources ==
  {ud \in Sources : ud[2] \in {ud[1], {}}}
\* The sources whose versions all have both payloads.
FullSources == {ud \in Sources : ud[2] = ud[1]}

InitEngine(callers) ==
  /\ isLocked = FALSE
  /\ isGracefulStop = FALSE
  /\ GracefulStop = 0
  /\ IsLocked = FALSE
  /\ pc = [c \in callers |-> "idle"]
  /\ call = [c \in callers |-> NewCall("none", Uint(0), 0, NoSummary)]
  /\ ret = [c \in callers |-> [q |-> <<>>, closed |-> FALSE]]
  /\ planner = [c \in callers |-> NoPlanner]
  /\ last = NoSummary
  /\ CurrentVersion2 = NilVersion
  /\ lastRun = [i \in Instances |-> NoRun]

\* One caller; driver faults and a stop signal.
Init ==
  /\ \E ud \in PlainSources : srcUp = ud[1] /\ srcDown = ud[2]
  /\ PrefetchMigrations \in 0..MaxPrefetch
  /\ CurrentVersion \in {NilVersion, MaxVersion}
  /\ InitEngine(OneCaller)
  /\ budget = [ops |-> MaxOps, faults |-> MaxFaults, signals |-> MaxSignals,
               trace |-> FALSE, tasks |-> FALSE]

\* One caller, every source and every database version; no driver fault and
\* no stop signal; each operation knows the one before it.
InitSequential ==
  /\ \E ud \in Sources : srcUp = ud[1] /\ srcDown = ud[2]
  /\ PrefetchMigrations \in 0..MaxPrefetch
  /\ CurrentVersion \in {NilVersion} \cup Versions
  /\ InitEngine(OneCaller)
  /\ budget = [ops |-> MaxOps, faults |-> 0, signals |-> 0, trace |-> TRUE,
               tasks |-> FALSE]

\* One caller and one operation, its buffering tasks followed; no driver
\* fault and no stop signal.
InitPipeline ==
  /\ \E ud \in PlainSources : srcUp = ud[1] /\ srcDown = ud[2]
  /\ PrefetchMigrations \in 0..MaxPrefetch
  /\ CurrentVersion \in {NilVersion, MaxVersion}
  /\ InitEngine(OneCaller)
  /\ budget = [ops |-> MaxPipelineOps, faults |-> 0, signals |-> 0,
               trace |-> FALSE, tasks |-> TRUE]

\* One caller and a stop signal, with driver faults.
InitFair ==
  /\ \E ud \in PlainSources : srcUp = ud[1] /\ srcDown = ud[2]
  /\ PrefetchMigrations \in 0..MaxPrefetch
  /\ CurrentVersion \in {NilVersion, MaxVersion}
  /\ InitEngine(OneCaller)
  /\ budget = [ops |-> MaxFairOps, faults |-> MaxFaults,
               signals |-> MaxSignals,
               trace |-> FALSE, tasks |-> FALSE]

\* Several callers and driver faults; no stop signal.
InitConcurrent ==
  /\ \E ud \in FullSources : srcUp = ud[1] /\ srcDown = ud[2]
  /\ PrefetchMigrations \in 0..MaxPrefetch
  /\ CurrentVersion = NilVersion
  /\ InitEngine(Callers)
  /\ budget = [ops |-> MaxOps, faults |-> MaxFaults, signals |-> 0,
               trace |-> FALSE, tasks |-> FALSE]

\* A driver call may fail while the behaviour has faults left.
Faults == IF budget.faults > 0 THEN BOOLEAN ELSE {FALSE}
Spend(fail) ==
  IF fail THEN [budget EXCEPT !.faults = @ - 1] ELSE budget

Running(c) == pc[c] # "idle"

\* A channel that takes one element more than its capacity.
CanSendOneMore(c) ==
  IF PrefetchMigrations = 0
  THEN ret[c].q = <<>> /\ pc[c] = "recv"
  ELSE Len(ret[c].q) <= PrefetchMigrations

\* The send "ret <- x" can proceed: the buffer has room, or (capacity 0) the
\* runner is waiting in its receive.
CanSend(c) ==
  IF PrefetchMigrations = 0
  THEN ret[c].q = <<>> /\ pc[c] = "recv"
  ELSE Len(ret[c].q) < PrefetchMigrations

\* The planner of c's last operation has returned, or is blocked for ever in
\* a send nobody will receive.
PlannerGone(c) ==
  \/ planner[c].pc \in {"off", "done"}
  \/ planner[c].pc = "send" /\ pc[c] = "idle" /\ ~CanSend(c)

\* ------------------------------------------------------- public operations

\* The operation returns result.
Return(c, calls, cl, result) ==
  /\ pc' = [pc EXCEPT ![c] = "idle"]
  /\ call' = [calls EXCEPT ![c] = [cl EXCEPT !.result = result,
                                            !.returned = TRUE]]
  /\ last' = IF budget.trace
             THEN Summary(cl.op, cl.n, cl.curVersion, cl.runs, result)
             ELSE NoSummary

\* Stub.Lock, and a driver whose Lock fails.
DriverLock(fail) ==
  IF IsLocked THEN ErrDriverLocked ELSE IF fail THEN ErrDriver ELSE Nil

\* lock() falling through to "return nil" when isLocked is set.
lockUnchecked(fail) ==
  IF ~isLocked THEN DriverLock(fail) ELSE Nil

\* lock() calling the driver's Lock before it looks at isLocked.
lockDriverFirst(fail) ==
  IF DriverLock(fail) # Nil THEN DriverLock(fail)
  ELSE IF isLocked THEN ErrLocked ELSE Nil

\* lock(), under isLockedMu: nil, ErrLocked or the driver's error.
lock(fail) ==
  IF ~isLocked THEN DriverLock(fail) ELSE ErrLocked

\* A caller calls Migrate, Steps, Up, Down or Drop, up to the return of its
\* lock().  Steps(0) returns ErrNoChange before it.  The records of the
\* operations that have returned are dropped.
Call(c) ==
  /\ pc[c] = "idle"
  /\ PlannerGone(c)
  /\ budget.ops > 0
  /\ planner' = [planner EXCEPT ![c] = NoPlanner]
  /\ ret' = [ret EXCEPT ![c] = [q |-> <<>>, closed |-> FALSE]]
  /\ \E k \in Calls, fail \in Faults :
       LET cl == NewCall(k.op, k.version, k.n, last)
           err == lock(fail)
           failed == fail /\ err = ErrDriver
           old == [d \in DOMAIN pc |->
                     IF pc[d] = "idle"
                     THEN NewCall("none", Uint(0), 0, NoSummary) ELSE call[d]]
       IN IF k.op = "Steps" /\ k.n = 0
          THEN /\ ~fail
               /\ Return(c, old, cl, Plain(ErrNoChange))
               /\ budget' = [budget EXCEPT !.ops = @ - 1]
               /\ UNCHANGED <<isLocked, IsLocked>>
          ELSE IF err # Nil
          THEN /\ fail = failed
               /\ Return(c, old, [cl EXCEPT !.locks = 1, !.faulted = failed],
                         Plain(err))
               /\ budget' = [Spend(failed) EXCEPT !.ops = @ - 1]
               /\ UNCHANGED <<isLocked, IsLocked>>
          ELSE /\ isLocked' = TRUE
               /\ IsLocked' = TRUE
               /\ pc' = [pc EXCEPT ![c] = IF k.op = "Drop" THEN "drop"
                                           ELSE "version"]
               /\ call' = [old EXCEPT ![c] =
                    [cl EXCEPT !.locks = 1, !.drvLocks = 1,
                               !.cancel = isGracefulStop \/ GracefulStop > 0,
                               !.latched = isGracefulStop]]
               /\ budget' = [budget EXCEPT !.ops = @ - 1]
               /\ last' = last
  /\ UNCHANGED <<instance2, srcUp, srcDown, PrefetchMigrations, isGracefulStop,
                 GracefulStop, CurrentVersion>>

\* The planner takes up what an entry or an iteration decided: it goes to
\* send the elements, or straight to the loop top or to the close.
Take(c, p, st) ==
  LET q == [p EXCEPT !.from = st.from, !.count = st.count,
                     !.items = st.items, !.after = st.after]
  IN IF st.items # <<>>
     THEN /\ planner' = [planner EXCEPT ![c] = [q EXCEPT !.pc = "send"]]
          /\ ret' = ret
     ELSE IF st.after = "top"
     THEN /\ planner' = [planner EXCEPT ![c] = [q EXCEPT !.pc = "top"]]
          /\ ret' = ret
     ELSE /\ planner' = [planner EXCEPT ![c] = [q EXCEPT !.pc = "done"]]
          /\ ret' = [ret EXCEPT ![c].closed = TRUE]

planEntry(p) ==
  IF p.kind = "read" THEN readEntry(p.from, p.arg)
  ELSE IF p.kind = "readUp" THEN readUpEntry(p.from, p.arg)
  ELSE readDownEntry(p.from, p.arg)

planLoop(p) ==
  IF p.kind = "read" THEN readLoop(p.up, p.from, p.arg)
  ELSE limitLoop(p.arg, p.count)

planIter(p) ==
  IF p.kind = "read" THEN readIter(p.up, p.from, p.arg)
  ELSE IF p.kind = "readUp" THEN readUpIter(p.from, p.arg, p.count)
  ELSE readDownIter(p.from, p.arg, p.count)

\* Stub.Version of an instance whose CurrentVersion is cur.
VersionOf(cur) == IF cur < 0 THEN NilVersion ELSE cur

\* Stub.Version of the engine's driver.
StubVersion == VersionOf(CurrentVersion)

\* The planner an operation starts: go m.read(curVersion, int(version), ret),
\* go m.readUp(curVersion, n | -1, ret), go m.readDown(curVersion, -n | -1, ret).
StartPlanner(cl, curVersion) ==
  LET kind == IF cl.op = "Migrate" THEN "read"
              ELSE IF cl.op = "Up" \/ (cl.op = "Steps" /\ cl.n > 0)
                THEN "readUp"
              ELSE "readDown"
      arg == IF cl.op = "Migrate" THEN IntOfUint(cl.version)
             ELSE IF cl.op = "Steps" THEN (IF cl.n > 0 THEN cl.n ELSE 0 - cl.n)
             ELSE -1
  IN [NoPlanner EXCEPT !.kind = kind, !.from = curVersion,
                       !.arg = arg, !.up = curVersion < arg]

\* curVersion, err := m.databaseDrv.Version(); then make(chan) and "go
\* m.read(...)", the planner running up to its first send or loop top (it
\* reads nothing but the source until there).
queryVersion(c) ==
  /\ pc[c] = "version"
  /\ \E fail \in Faults :
       /\ budget' = Spend(fail)
       /\ IF fail
          THEN /\ pc' = [pc EXCEPT ![c] = "unlock"]
               /\ call' = [call EXCEPT ![c].err = ErrDriver,
                                       ![c].faulted = TRUE,
                                       ![c].drvOthers = @ + 1]
               /\ UNCHANGED <<ret, planner>>
          ELSE /\ pc' = [pc EXCEPT ![c] = "recv"]
               /\ call' = [call EXCEPT ![c].curVersion = StubVersion,
                                       ![c].drvOthers = @ + 1]
               /\ Take(c, StartPlanner(call[c], StubVersion),
                       planEntry(StartPlanner(call[c], StubVersion)))
  /\ UNCHANGED <<instance2, srcUp, srcDown, PrefetchMigrations, isLocked, isGracefulStop,
                 GracefulStop, CurrentVersion, IsLocked, last>>

\* Drop: m.databaseDrv.Drop() (Stub.Drop sets CurrentVersion to -1).
drop(c) ==
  /\ pc[c] = "drop"
  /\ \E fail \in Faults :
       /\ budget' = Spend(fail)
       /\ CurrentVersion' = IF fail THEN CurrentVersion ELSE -1
       /\ call' = [call EXCEPT ![c].err = IF fail THEN ErrDriver ELSE Nil,
                               ![c].faulted = fail,
                               ![c].drvOthers = @ + 1]
  /\ pc' = [pc EXCEPT ![c] = "unlock"]
  /\ UNCHANGED <<instance2, srcUp, srcDown, PrefetchMigrations, isLocked, isGracefulStop,
                 GracefulStop, IsLocked, ret, planner, last>>

\* unlockErr returning the error of unlock() in place of prevErr.
unlockErrReplacing(prevErr, err, composed) ==
  IF err # Nil THEN Plain(err) ELSE Plain(prevErr)

\* unlock() under isLockedMu, as called by unlockErr(prevErr) and, with no
\* previous error to compose, by Drop's "return m.unlock()".
unlockErr(prevErr, err, composed) ==
  IF err # Nil
  THEN IF composed THEN NewMultiError(prevErr, err) ELSE Plain(err)
  ELSE Plain(prevErr)

\* unlock() that never clears isLocked.
unlockFlagKept(fail) == isLocked

\* isLocked after unlock(): cleared unless the driver's Unlock failed.
unlockFlag(fail) == IF fail THEN isLocked ELSE FALSE

unlock(c) ==
  /\ pc[c] = "unlock"
  /\ \E fail \in Faults :
       LET err == IF fail THEN ErrDriver ELSE Nil
           composed == ~(call[c].op = "Drop" /\ call[c].err = Nil)
           cl == [call[c] EXCEPT !.unlocks = @ + 1, !.drvUnlocks = @ + 1,
                                 !.faulted = @ \/ fail,
                                 !.unlockErr = err,
                                 !.lockedAtReturn = unlockFlag(fail)]
       IN /\ budget' = Spend(fail)
          /\ isLocked' = unlockFlag(fail)
          /\ IsLocked' = IF fail THEN IsLocked ELSE FALSE
          /\ Return(c, call, cl, unlockErr(call[c].err, err, composed))
  /\ UNCHANGED <<instance2, srcUp, srcDown, PrefetchMigrations, isGracefulStop,
                 GracefulStop, CurrentVersion, ret, planner>>

\* ------------------------------------------------------------ cancellation

\* stop() that looks at the channel only, never at isGracefulStop.
stopUnlatched == IF GracefulStop > 0 THEN "take" ELSE "false"

\* stop(): "true" when isGracefulStop is set, "take" when it receives a
\* signal from GracefulStop (isGracefulStop is set by the next step of the
\* same goroutine), "false" otherwise.
stop == IF isGracefulStop THEN "true"
        ELSE IF GracefulStop > 0 THEN "take"
        ELSE "false"

\* A user sends to GracefulStop (capacity 1; the send proceeds when it is
\* empty).  Every running operation notes how many Run calls had succeeded.
Succeeded(cl) == IF cl.runFailed THEN Len(cl.runs) - 1 ELSE Len(cl.runs)

SendGracefulStop ==
  /\ budget.signals > 0
  /\ GracefulStop = 0
  /\ GracefulStop' = 1
  /\ budget' = [budget EXCEPT !.signals = @ - 1]
  /\ call' = [c \in DOMAIN pc |->
       IF Running(c)
       THEN [call[c] EXCEPT !.cancel = TRUE,
                            !.sigAt = IF @ = -1 THEN Succeeded(call[c]) ELSE @]
       ELSE call[c]]
  /\ UNCHANGED <<instance2, srcUp, srcDown, PrefetchMigrations, isLocked, isGracefulStop,
                 CurrentVersion, IsLocked, pc, ret, planner, last>>

\* ------------------------------------------------------------------- runner

\* "for r := range ret": receive the next element, or leave the loop (and
\* return nil) when ret is closed and drained.
recv(c) ==
  /\ pc[c] = "recv"
  /\ IF ret[c].q # <<>>
     THEN /\ call' = [call EXCEPT ![c].r = Head(ret[c].q), ![c].got = @ + 1]
          /\ ret' = [ret EXCEPT ![c].q = Tail(@)]
          /\ pc' = [pc EXCEPT ![c] = "poll"]
     ELSE /\ ret[c].closed
          /\ call' = [call EXCEPT ![c].err = Nil]
          /\ pc' = [pc EXCEPT ![c] = "unlock"]
          /\ ret' = ret
  /\ UNCHANGED <<instance2, srcUp, srcDown, PrefetchMigrations, isLocked, isGracefulStop,
                 GracefulStop, CurrentVersion, IsLocked, planner, last, budget>>

\* Where the runner goes after "if m.stop()".
runnerAfterStop(s) ==
  IF s = "true" THEN "unlock" ELSE IF s = "take" THEN "latch" ELSE "handle"

\* "if m.stop() { return nil }" in runMigrations.
runnerStop(c) ==
  /\ pc[c] = "poll"
  /\ pc' = [pc EXCEPT ![c] = runnerAfterStop(stop)]
  /\ GracefulStop' = IF stop = "take" THEN 0 ELSE GracefulStop
  /\ call' = [call EXCEPT ![c].err = IF stop = "true" THEN Nil ELSE @,
                          ![c].stopped = @ \/ stop # "false"]
  /\ UNCHANGED <<instance2, srcUp, srcDown, PrefetchMigrations, isLocked, isGracefulStop,
                 CurrentVersion, IsLocked, ret, planner, last, budget>>

\* "m.isGracefulStop = true; return true" in stop(), then "return nil".
runnerLatch(c) ==
  /\ pc[c] = "latch"
  /\ isGracefulStop' = TRUE
  /\ call' = [call EXCEPT ![c].err = Nil]
  /\ pc' = [pc EXCEPT ![c] = "unlock"]
  /\ UNCHANGED <<instance2, srcUp, srcDown, PrefetchMigrations, isLocked, GracefulStop,
                 CurrentVersion, IsLocked, ret, planner, last, budget>>

\* Stub.Run(version, migration): CurrentVersion is set first; reading the
\* migration, when there is one, may then fail.
RunFaults(migr) == IF migr.body THEN Faults ELSE {FALSE}

\* Stub.Run recording the version only when it is given a migration.
StubRunWithBody(cur, version, body) == IF body THEN version ELSE cur

\* Stub.Run(version, migration): "s.CurrentVersion = version", with a
\* migration or with nil, before anything can fail.
StubRun(cur, version, body) == version

\* runMigrations handing migr.Version to the driver's Run.
runTargetVersion(migr) == migr.version

\* The version runMigrations hands to the driver's Run: migr.TargetVersion.
runTarget(migr) == migr.target

\* The buffering task of the element the runner holds.
TaskOf(cl) == cl.tasks[cl.got]

\* The switch of runMigrations: an error is returned; a migration is run on
\* the driver with its TargetVersion, and a driver error is returned.  Run
\* is called at once; when the record is not buffered yet, Run returns only
\* after the driver could read BufferedBody (readBody).
handle(c) ==
  /\ pc[c] = "handle"
  /\ LET r == call[c].r IN
     IF r.type = "err"
     THEN /\ call' = [call EXCEPT ![c].err = r.err]
          /\ pc' = [pc EXCEPT ![c] = "unlock"]
          /\ UNCHANGED <<CurrentVersion, budget>>
     ELSE \E fail \in RunFaults(r) :
            /\ CurrentVersion' = StubRun(CurrentVersion, runTarget(r), r.body)
            /\ budget' = Spend(fail)
            /\ call' = [call EXCEPT
                 ![c].runs = Append(@, [version |-> r.version,
                                        target |-> runTarget(r)]),
                 ![c].runFailed = fail,
                 ![c].faulted = @ \/ fail,
                 ![c].early = @ \/ TaskOf(call[c]) \in {"go", "started"},
                 ![c].err = IF fail THEN ErrDriver ELSE @]
            /\ pc' = [pc EXCEPT ![c] =
                 IF fail THEN "unlock"
                 ELSE IF TaskOf(call[c]) \in {"go", "started"} THEN "read"
                 ELSE "recv"]
  /\ UNCHANGED <<instance2, srcUp, srcDown, PrefetchMigrations, isLocked, isGracefulStop,
                 GracefulStop, IsLocked, ret, planner, last>>

\* The driver's Run reads BufferedBody, which is readable once the record's
\* buffering task has completed, and returns.
readBody(c) ==
  /\ pc[c] = "read"
  /\ TaskOf(call[c]) = "done"
  /\ pc' = [pc EXCEPT ![c] = "recv"]
  /\ UNCHANGED <<instance2, srcUp, srcDown, PrefetchMigrations, isLocked,
                 isGracefulStop, GracefulStop, CurrentVersion, IsLocked, call,
                 ret, planner, last, budget>>

\* ------------------------------------------------------------------ planner

\* The loop top: the loop condition, "if m.stop() { return }", and what the
\* iteration decides to send.
plannerTop(c) ==
  /\ planner[c].pc = "top"
  /\ LET p == planner[c] IN
     IF ~planLoop(p) \/ stop = "true"
     THEN /\ planner' = [planner EXCEPT ![c].pc = "done"]
          /\ ret' = [ret EXCEPT ![c].closed = TRUE]
          /\ GracefulStop' = GracefulStop
     ELSE IF stop = "take"
     THEN /\ planner' = [planner EXCEPT ![c].pc = "latch"]
          /\ GracefulStop' = 0
          /\ ret' = ret
     ELSE /\ Take(c, p, planIter(p))
          /\ GracefulStop' = GracefulStop
  /\ UNCHANGED <<instance2, srcUp, srcDown, PrefetchMigrations, isLocked, isGracefulStop,
                 CurrentVersion, IsLocked, pc, call, last, budget>>

\* A planner that returns on stop() without the deferred close(ret).
plannerLatchNoClose(c) ==
  /\ planner[c].pc = "latch"
  /\ isGracefulStop' = TRUE
  /\ planner' = [planner EXCEPT ![c].pc = "done"]
  /\ UNCHANGED <<instance2, srcUp, srcDown, PrefetchMigrations, isLocked,
                 GracefulStop, CurrentVersion, IsLocked, pc, call, ret, last,
                 budget>>

\* "m.isGracefulStop = true; return true" in stop(), then the planner
\* returns and closes ret.
plannerLatch(c) ==
  /\ planner[c].pc = "latch"
  /\ isGracefulStop' = TRUE
  /\ planner' = [planner EXCEPT ![c].pc = "done"]
  /\ ret' = [ret EXCEPT ![c].closed = TRUE]
  /\ UNCHANGED <<instance2, srcUp, srcDown, PrefetchMigrations, isLocked, GracefulStop,
                 CurrentVersion, IsLocked, pc, call, last, budget>>

\* The buffering task "go migr.Buffer()" creates for an element: none for an
\* error or a record without Body; else a task that has yet to run ("go"),
\* or, where the tasks are not followed, one taken as completed.
NewTask(x) ==
  IF x.type = "migr" /\ x.body
  THEN IF budget.tasks THEN "go" ELSE "done"
  ELSE "none"

\* "ret <- x" (followed, for a migration, by "go migr.Buffer()"), then the
\* next send, the loop top, or the return that closes ret.  On a channel of
\* capacity 0 the send is the runner's receive.
plannerSend(c) ==
  /\ planner[c].pc = "send"
  /\ CanSend(c)
  /\ LET p == planner[c]
         rest == Tail(p.items)
         direct == PrefetchMigrations = 0
     IN /\ ret' = [ret EXCEPT
             ![c].q = IF direct THEN @ ELSE Append(@, Head(p.items)),
             ![c].closed = rest = <<>> /\ p.after = "close"]
        /\ planner' = [planner EXCEPT
             ![c].items = rest,
             ![c].pc = IF rest # <<>> THEN "send"
                       ELSE IF p.after = "top" THEN "top" ELSE "done"]
        /\ call' = [call EXCEPT
             ![c].sent = Append(@, Head(p.items)),
             ![c].tasks = Append(@, NewTask(Head(p.items))),
             ![c].r = IF direct THEN Head(p.items) ELSE @,
             ![c].got = IF direct THEN @ + 1 ELSE @]
        /\ pc' = IF direct THEN [pc EXCEPT ![c] = "poll"] ELSE pc
  /\ UNCHANGED <<instance2, srcUp, srcDown, PrefetchMigrations, isLocked,
                 isGracefulStop, GracefulStop, CurrentVersion, IsLocked, last,
                 budget>>

\* ---------------------------------------------------------- buffering tasks

\* The goroutine of "go migr.Buffer()" starts to copy Body.
bufferStart(c) ==
  /\ \E i \in DOMAIN call[c].tasks :
       /\ call[c].tasks[i] = "go"
       /\ call' = [call EXCEPT ![c].tasks[i] = "started"]
  /\ UNCHANGED <<instance2, srcUp, srcDown, PrefetchMigrations, isLocked,
                 isGracefulStop, GracefulStop, CurrentVersion, IsLocked, pc,
                 ret, planner, last, budget>>

\* Buffer() has copied the whole Body: BufferedBody is readable.
bufferDone(c) ==
  /\ \E i \in DOMAIN call[c].tasks :
       /\ call[c].tasks[i] = "started"
       /\ call' = [call EXCEPT ![c].tasks[i] = "done"]
  /\ UNCHANGED <<instance2, srcUp, srcDown, PrefetchMigrations, isLocked,
                 isGracefulStop, GracefulStop, CurrentVersion, IsLocked, pc,
                 ret, planner, last, budget>>

\* -------------------------------------------------------------- driver test

\* Two freshly opened Stubs (Open sets CurrentVersion to -1); no engine runs.
InitDriver ==
  /\ srcUp = {}
  /\ srcDown = {}
  /\ PrefetchMigrations = 0
  /\ CurrentVersion = NilVersion
  /\ InitEngine(OneCaller)
  /\ budget = [ops |-> 0, faults |-> 0, signals |-> 0, trace |-> FALSE,
               tasks |-> FALSE]

\* d.Run(version, migration) or d2.Run(version, migration), called as the
\* driver test calls it: with a migration whose read may fail, or with nil.
stubRun(i) ==
  \E version \in {NilVersion} \cup Versions, body \in BOOLEAN, fail \in BOOLEAN :
    /\ fail => body
    /\ IF i = "d"
       THEN /\ CurrentVersion' = StubRun(CurrentVersion, version, body)
            /\ CurrentVersion2' = CurrentVersion2
       ELSE /\ CurrentVersion2' = StubRun(CurrentVersion2, version, body)
            /\ CurrentVersion' = CurrentVersion
    /\ lastRun' = [lastRun EXCEPT ![i] = [ran |-> TRUE, version |-> version,
                                           body |-> body, ok |-> ~fail]]
    /\ UNCHANGED <<srcUp, srcDown, PrefetchMigrations, isLocked,
                   isGracefulStop, GracefulStop, IsLocked, pc, call, ret,
                   planner, last, budget>>

\* ------------------------------------------------------------ specification

Next ==
  \/ SendGracefulStop
  \/ \E c \in OneCaller :
       \/ Call(c)
       \/ queryVersion(c)
       \/ drop(c)
       \/ recv(c)
       \/ runnerStop(c)
       \/ runnerLatch(c)
       \/ handle(c)
       \/ unlock(c)
       \/ plannerTop(c)
       \/ plannerLatch(c)
       \/ plannerSend(c)

\* The steps of a caller in behaviours in which no stop signal is sent.
NextSequential ==
  \E c \in OneCaller :
    \/ Call(c)
    \/ queryVersion(c)
    \/ drop(c)
    \/ recv(c)
    \/ runnerStop(c)
    \/ handle(c)
    \/ unlock(c)
    \/ plannerTop(c)
    \/ plannerSend(c)

NextConcurrent ==
  \E c \in Callers :
    \/ Call(c)
    \/ queryVersion(c)
    \/ drop(c)
    \/ recv(c)
    \/ runnerStop(c)
    \/ handle(c)
    \/ unlock(c)
    \/ plannerTop(c)
    \/ plannerSend(c)

Spec == Init /\ [][Next]_vars

SpecSequential == InitSequential /\ [][NextSequential]_vars

SpecConcurrent == InitConcurrent /\ [][NextConcurrent]_vars

\* The scheduler runs every goroutine that can take a step: the caller's
\* (once inside an operation) and its planner's.  Calls and stop signals
\* come when the user likes.
Fairness ==
  \A c \in OneCaller :
    /\ WF_vars(queryVersion(c))
    /\ WF_vars(drop(c))
    /\ WF_vars(recv(c))
    /\ WF_vars(runnerStop(c))
    /\ WF_vars(runnerLatch(c))
    /\ WF_vars(handle(c))
    /\ WF_vars(unlock(c))
    /\ WF_vars(plannerTop(c))
    /\ WF_vars(plannerLatch(c))
    /\ WF_vars(plannerSend(c))

SpecFair == InitFair /\ [][Next]_vars /\ Fairness

NextPipeline ==
  \E c \in OneCaller :
    \/ Call(c)
    \/ queryVersion(c)
    \/ drop(c)
    \/ recv(c)
    \/ runnerStop(c)
    \/ handle(c)
    \/ readBody(c)
    \/ unlock(c)
    \/ plannerTop(c)
    \/ plannerSend(c)
    \/ bufferStart(c)
    \/ bufferDone(c)

SpecPipeline == InitPipeline /\ [][NextPipeline]_vars

NextDriver == \E i \in Instances : stubRun(i)

SpecDriver == InitDriver /\ [][NextDriver]_vars

\* --------------------------------------------------------------- properties

IsPrefix(s, t) == Len(s) <= Len(t) /\ SubSeq(t, 1, Len(s)) = s

\* The targets of the Run calls of an operation, in call order.
RunTargets(cl) == [i \in 1..Len(cl.runs) |-> cl.runs[i].target]
\* The versions of the records an operation ran, in call order.
RunVersions(cl) == [i \in 1..Len(cl.runs) |-> cl.runs[i].version]
\* The TargetVersions of the records its planner sent, in send order.
IsMigr(x) == x.type = "migr"
SentTargets(cl) ==
  LET m == SelectSeq(cl.sent, IsMigr) IN [i \in 1..Len(m) |-> m[i].target]

\* An operation that has returned and whose lock() had succeeded.
Locked(cl) == cl.returned /\ cl.drvLocks = 1

\* C1: an operation whose lock() succeeded has called unlock() exactly once
\* when it returns, whatever the exit path; when the driver's Unlock
\* succeeded, isLocked is false at the return and the driver saw as many
\* Unlock calls as successful Lock calls.
C1_UnlockOnEveryExit ==
  \A c \in DOMAIN call :
    /\ call[c].unlocks <= 1
    /\ Locked(call[c]) =>
         /\ call[c].unlocks = 1
         /\ call[c].unlockErr = Nil =>
              /\ ~call[c].lockedAtReturn
              /\ call[c].drvUnlocks = call[c].drvLocks

\* C1's case: an operation returns the error of a failed Run, unlocked.
C1_Witness ==
  \E c \in DOMAIN call :
    /\ Locked(call[c])
    /\ call[c].runFailed
    /\ call[c].unlocks = 1
    /\ call[c].result = Plain(ErrDriver)
    /\ ~isLocked

\* C2: at most one operation is between its successful lock() and the
\* return of its unlock(), and isLocked (and the driver's lock) is held for
\* as long as it is: the driver's Run and Drop are called by that operation
\* alone, and lock() calls the driver's Lock only while none is.
C2_OneOperationUnderLock ==
  /\ Cardinality({c \in DOMAIN pc : pc[c] # "idle"}) <= 1
  /\ \A c \in DOMAIN pc : pc[c] # "idle" => isLocked /\ IsLocked

\* C2's case: an operation is about to call Run while another caller's
\* operation has come and gone.
C2_Witness ==
  \E c, d \in DOMAIN pc :
    /\ c # d
    /\ pc[c] = "handle"
    /\ call[c].r.type = "migr"
    /\ call[d].returned
    /\ call[d].locks = 1

\* C3: a lock() called while isLocked is set returns ErrLocked, calls no
\* driver method and leaves isLocked, the driver's lock and the database
\* version as they are.
C3_LockedReturnsErrLocked ==
  [][\A c \in DOMAIN pc :
       (isLocked /\ pc[c] = "idle" /\ call'[c] # call[c]
          /\ call'[c].locks = 1) =>
         /\ call'[c].returned
         /\ call'[c].result = Plain(ErrLocked)
         /\ call'[c].drvLocks = 0
         /\ call'[c].drvUnlocks = 0
         /\ call'[c].drvOthers = 0
         /\ call'[c].runs = <<>>
         /\ isLocked'
         /\ IsLocked' = IsLocked
         /\ CurrentVersion' = CurrentVersion]_vars

\* C3's case: a caller got ErrLocked while another operation holds the lock.
C3_Witness ==
  \E c, d \in DOMAIN pc :
    /\ call[c].returned
    /\ call[c].result = Plain(ErrLocked)
    /\ pc[d] # "idle"
    /\ isLocked

\* C4 (as amended): the targets of the Run calls of an operation are, in
\* order, a prefix of the TargetVersions of the records its planner sent;
\* they are all of them when the operation returns without a failed Run and
\* without a stop() of its runner returning true.
C4_RunsFollowEmission ==
  \A c \in DOMAIN call :
    /\ IsPrefix(RunTargets(call[c]), SentTargets(call[c]))
    /\ (call[c].returned /\ ~call[c].runFailed /\ ~call[c].stopped) =>
         RunTargets(call[c]) = SentTargets(call[c])

\* C4's case: an operation returned after running two records or more.
C4_Witness ==
  \E c \in DOMAIN call :
    /\ call[c].returned
    /\ Len(call[c].runs) >= 2
    /\ RunTargets(call[c]) = SentTargets(call[c])

\* C4 as stated: at the return of any call, the Run targets are exactly the
\* TargetVersions of the records the planner sent (none skipped).
C4_Original ==
  \A c \in DOMAIN call :
    call[c].returned => RunTargets(call[c]) = SentTargets(call[c])

\* C5 as stated, its bound on the Run calls where no driver call fails: when
\* a signal was sent after k successful Run calls of a running operation,
\* the operation returns with k or k + 1 Run calls made.
C5_StopWithinOneRun ==
  \A c \in DOMAIN call :
    (call[c].returned /\ call[c].sigAt >= 0 /\ ~call[c].faulted) =>
      Len(call[c].runs) \in {call[c].sigAt, call[c].sigAt + 1}

\* The versions of a set in ascending and in descending order.
RECURSIVE Asc(_)
Asc(S) == IF S = {} THEN <<>> ELSE <<SetMin(S)>> \o Asc(S \ {SetMin(S)})
RECURSIVE Desc(_)
Desc(S) == IF S = {} THEN <<>> ELSE <<SetMax(S)>> \o Desc(S \ {SetMax(S)})
Reverse(s) == [i \in 1..Len(s) |-> s[Len(s) + 1 - i]]

\* A returned operation op that read the database version from, which is -1
\* or a version of the source.
Ran(cl, op) ==
  /\ Locked(cl)
  /\ cl.op = op
  /\ cl.curVersion \in {NilVersion} \cup Index

\* C6: from the empty database and with 1 <= n <= the number of source
\* versions, Steps(n) and then Steps(-n) both return nil and leave the
\* database at NilVersion, and the versions run down are the versions run
\* up, reversed.
C6_RoundTrip ==
  \A c \in DOMAIN call :
    LET cl == call[c] IN
    (/\ Ran(cl, "Steps")
     /\ cl.pred.op = "Steps"
     /\ cl.pred.from = NilVersion
     /\ cl.pred.n >= 1
     /\ cl.pred.n <= Cardinality(Index)
     /\ cl.n = 0 - cl.pred.n) =>
      /\ cl.pred.result = Plain(Nil)
      /\ cl.result = Plain(Nil)
      /\ CurrentVersion = NilVersion
      /\ Len(cl.runs) = cl.pred.n
      /\ RunVersions(cl) = Reverse(RunVersions(cl.pred))

\* C6's case: Steps(n) and Steps(-n) have run n >= 2 migrations up and down.
C6_Witness ==
  \E c \in DOMAIN call :
    /\ Ran(call[c], "Steps")
    /\ call[c].pred.op = "Steps"
    /\ call[c].pred.from = NilVersion
    /\ call[c].pred.n >= 2
    /\ call[c].n = 0 - call[c].pred.n
    /\ Len(call[c].runs) = call[c].pred.n
    /\ CurrentVersion = NilVersion

\* What Up() does from a version of the source or from -1, but for its
\* result when nothing is left to apply.
UpRuns(cl, none) ==
  LET todo == {v \in Index : v > cl.curVersion} IN
  IF todo # {}
  THEN /\ RunVersions(cl) = Asc(todo)
       /\ RunTargets(cl) = Asc(todo)
       /\ CurrentVersion = SetMax(Index)
       /\ cl.result = Plain(Nil)
  ELSE /\ cl.runs = <<>>
       /\ CurrentVersion = cl.curVersion
       /\ cl.result = Plain(none)

\* C7 (as amended): Up() runs every source version above the one it starts
\* from, in ascending order, each with itself as the target, leaves the
\* database at the largest and returns nil; when none is left it runs
\* nothing and returns ErrNoChange, or NotExist when the source is empty.
C7_UpAppliesAllRemaining ==
  \A c \in DOMAIN call :
    Ran(call[c], "Up") =>
      UpRuns(call[c], IF Index = {} THEN ErrNotExist ELSE ErrNoChange)

\* C7's case: Up() has run two versions or more.
C7_Witness ==
  \E c \in DOMAIN call :
    /\ Ran(call[c], "Up")
    /\ Len(call[c].runs) >= 2
    /\ call[c].result = Plain(Nil)
    /\ CurrentVersion = SetMax(Index)

\* C7 as stated: when no migration is left, Up() returns ErrNoChange.
C7_Original ==
  \A c \in DOMAIN call : Ran(call[c], "Up") => UpRuns(call[c], ErrNoChange)

\* C8: Down() from a version of the source runs the versions from it down
\* to the first, each with the version before it as the target and the
\* first with -1, leaves the database at NilVersion and returns nil; on an
\* empty database it runs nothing and returns ErrNoChange.
C8_DownReversesAll ==
  \A c \in DOMAIN call :
    LET cl == call[c]
        todo == {v \in Index : v <= cl.curVersion}
    IN Ran(cl, "Down") =>
         IF cl.curVersion = NilVersion
         THEN /\ cl.runs = <<>>
              /\ cl.result = Plain(ErrNoChange)
              /\ CurrentVersion = NilVersion
         ELSE /\ RunVersions(cl) = Desc(todo)
              /\ RunTargets(cl) = Tail(Desc(todo)) \o <<NilVersion>>
              /\ CurrentVersion = NilVersion
              /\ cl.result = Plain(Nil)

\* C8's case: Down() has run two versions or more, down to the empty database.
C8_Witness ==
  \E c \in DOMAIN call :
    /\ Ran(call[c], "Down")
    /\ Len(call[c].runs) >= 2
    /\ call[c].result = Plain(Nil)
    /\ CurrentVersion = NilVersion

\* The uint version is a version of the source.
Present(u) == ~u.high /\ u.n \in Index

\* C9: Migrate(v) to a version of the source other than the current one
\* returns nil and leaves the database at v; going up, its Run targets are
\* the source versions above the current one up to v, ascending; going
\* down, those from v up to below the current one, descending.
C9_MigrateReachesTarget ==
  \A c \in DOMAIN call :
    LET cl == call[c]
        v == cl.version.n
        from == cl.curVersion
    IN (Ran(cl, "Migrate") /\ Present(cl.version) /\ from # v) =>
         /\ cl.result = Plain(Nil)
         /\ CurrentVersion = v
         /\ IF from < v
            THEN /\ RunTargets(cl) = Asc({x \in Index : from < x /\ x <= v})
                 /\ RunVersions(cl) = RunTargets(cl)
            ELSE /\ RunTargets(cl) = Desc({x \in Index : v <= x /\ x < from})
                 /\ RunVersions(cl) = Desc({x \in Index : v < x /\ x <= from})

\* C9's cases: a Migrate that went up, or down, by two versions or more.
C9_Witness ==
  \E c \in DOMAIN call :
    /\ Ran(call[c], "Migrate")
    /\ Present(call[c].version)
    /\ call[c].curVersion > call[c].version.n
    /\ Len(call[c].runs) >= 2
    /\ CurrentVersion = call[c].version.n

C11_StepsUpWithinLimit ==
  \A c \in DOMAIN call :
    LET cl == call[c]
        todo == {v \in Index : v > cl.curVersion}
        r == Cardinality(todo)
        k == IF cl.n <= r THEN cl.n ELSE r
    IN (Ran(cl, "Steps") /\ cl.n > 0 /\ (r > 0 \/ cl.curVersion >= 0)) =>
         /\ RunVersions(cl) = SubSeq(Asc(todo), 1, k)
         /\ RunTargets(cl) = RunVersions(cl)
         /\ Len(cl.runs) <= cl.n
         /\ cl.result = Plain(IF r >= cl.n THEN Nil
                              ELSE IF r > 0 THEN ErrShortLimit(cl.n - r)
                              ELSE ErrNotExist)

\* C11's case: Steps(n) has run r >= 1 versions and come back r short of n.
C11_Witness ==
  \E c \in DOMAIN call :
    /\ Ran(call[c], "Steps")
    /\ call[c].n >= 2
    /\ Len(call[c].runs) >= 1
    /\ call[c].result = Plain(ErrShortLimit(call[c].n - Len(call[c].runs)))

\* C12: a freshly opened driver reports NilVersion; after a successful Run
\* it reports the version of that Run, with a migration or with nil; and a
\* Run on one instance leaves what the other instance reports.
C12_DriverVersionFollowsRun ==
  \A i \in Instances :
    LET cur == IF i = "d" THEN CurrentVersion ELSE CurrentVersion2 IN
    IF ~lastRun[i].ran
    THEN VersionOf(cur) = NilVersion
    ELSE lastRun[i].ok => VersionOf(cur) = lastRun[i].version

\* C12's case: d ran a migration, then d2 ran another version with nil, and
\* the two report their own versions.
C12_Witness ==
  /\ lastRun["d"].ok /\ lastRun["d"].body
  /\ lastRun["d2"].ok /\ ~lastRun["d2"].body
  /\ lastRun["d"].version > lastRun["d2"].version
  /\ lastRun["d2"].version >= 0
  /\ VersionOf(CurrentVersion) = lastRun["d"].version
  /\ VersionOf(CurrentVersion2) = lastRun["d2"].version

\* A Migrate, Steps, Up or Down called with isGracefulStop set has returned,
\* its lock() having succeeded and no driver call having failed.
CalledLatched(cl) ==
  /\ Locked(cl)
  /\ cl.op \in {"Migrate", "Steps", "Up", "Down"}
  /\ cl.latched
  /\ ~cl.faulted

\* C13: isGracefulStop, once set, stays set, so that stop() returns true for
\* ever; and a Migrate, Steps, Up or Down called after it was set calls Run
\* on nothing, leaves the database version, returns nil and releases the lock.
C13_StopIsSticky ==
  /\ [](\A c \in DOMAIN call :
          CalledLatched(call[c]) =>
            /\ call[c].runs = <<>>
            /\ CurrentVersion = call[c].curVersion
            /\ call[c].result = Plain(Nil)
            /\ ~isLocked)
  /\ [][isGracefulStop => isGracefulStop' /\ stop = "true"]_vars

\* C13's case: an operation called after the latch returned nil although its
\* planner had sent it a migration to run.
C13_Witness ==
  \E c \in DOMAIN call :
    /\ CalledLatched(call[c])
    /\ \E i \in 1..Len(call[c].sent) : IsMigr(call[c].sent[i])
    /\ call[c].result = Plain(Nil)

\* C14 as stated: Run is called on a record with a body only after the
\* record's buffering task has completed (and, the runner being one
\* goroutine, after the Run of the record before it has returned).
C14_RunAfterBuffering ==
  \A c \in DOMAIN call : ~call[c].early

\* The elements whose buffering task was created and which the runner has
\* not received.
Prefetched(cl) ==
  {i \in DOMAIN cl.tasks : i > cl.got /\ cl.tasks[i] # "none"}

\* C15: the records whose buffering task has started and which the runner
\* has not consumed are never more than PrefetchMigrations, 0 included.
C15_PrefetchBound ==
  \A c \in DOMAIN call :
    Cardinality(Prefetched(call[c])) <= PrefetchMigrations

\* C15's case: PrefetchMigrations records are buffering ahead of the runner
\* and the planner is blocked in its send of the next one.
C15_Witness ==
  \E c \in DOMAIN call :
    /\ PrefetchMigrations > 0
    /\ Cardinality(Prefetched(call[c])) = PrefetchMigrations
    /\ \E i \in Prefetched(call[c]) : call[c].tasks[i] = "started"
    /\ planner[c].pc = "send"
    /\ ~CanSend(c)
    /\ Running(c)

\* C16 as stated: once a stop signal was sent during a Migrate, Steps, Up or
\* Down, the operation's planner eventually returns and closes ret.
C16_PlannerClosesAfterStop ==
  \A c \in OneCaller :
    (/\ call[c].sigAt >= 0
     /\ call[c].drvLocks = 1
     /\ call[c].op \in {"Migrate", "Steps", "Up", "Down"})
      ~> (planner[c].pc = "done" /\ ret[c].closed)

\* The version the last successful Run of an operation left, or the version
\* the operation read when none of its Run calls succeeded.
LastApplied(cl) ==
  IF Succeeded(cl) = 0 THEN cl.curVersion ELSE cl.runs[Succeeded(cl)].target

\* The runner took an error value of the planner through its switch.
GotPlannerError(cl) ==
  cl.r.type = "err" /\ cl.r.err # Nil /\ cl.err = cl.r.err

\* C17 as stated: an operation whose Run failed returns the driver's error;
\* one whose planner sent an error returns it, having run exactly the
\* records sent before it; either way the database is at the version of the
\* last successful Run and, the driver's Unlock succeeding, unlocked.
C17_FirstErrorReturned ==
  \A c \in DOMAIN call :
    LET cl == call[c] IN
    (Locked(cl) /\ (cl.runFailed \/ GotPlannerError(cl))) =>
      /\ cl.result.err = (IF cl.runFailed THEN ErrDriver ELSE cl.r.err)
      /\ cl.runFailed \/ RunTargets(cl) = SentTargets(cl)
      /\ CurrentVersion = LastApplied(cl)
      /\ cl.unlockErr = Nil => ~isLocked

\* The returned error is e or a multi-error with e in it.
Carries(result, e) ==
  IF result.multi THEN result.err = e \/ result.unlock = e
  ELSE result.err = e

\* C18: when the driver's Unlock fails, isLocked stays true and the
\* operation returns the unlock error together with its own error, never
\* in its place; when Unlock succeeds, the operation returns its own result
\* and isLocked is false.
C18_UnlockErrorComposed ==
  \A c \in DOMAIN call :
    LET cl == call[c] IN
    Locked(cl) =>
      IF cl.unlockErr # Nil
      THEN /\ cl.lockedAtReturn
           /\ isLocked
           /\ Carries(cl.result, cl.unlockErr)
           /\ cl.err # Nil =>
                /\ cl.result.multi
                /\ cl.result.err = cl.err
                /\ cl.result.unlock = cl.unlockErr
      ELSE /\ cl.result = Plain(cl.err)
           /\ ~cl.lockedAtReturn
           /\ ~isLocked

\* C18's case: an operation that ended on an error of its own and whose
\* unlock failed too.
C18_Witness ==
  \E c \in DOMAIN call :
    /\ Locked(call[c])
    /\ call[c].unlockErr # Nil
    /\ call[c].err # Nil
    /\ call[c].result = NewMultiError(call[c].err, call[c].unlockErr)
    /\ isLocked

\* The migration records an operation's planner has sent so far.
SentRecords(cl) == SelectSeq(cl.sent, IsMigr)

\* The planner of an operation plans upwards: readUp, or read with from < to.
UpPlan(p) == p.kind = "readUp" \/ (p.kind = "read" /\ p.up)

\* The records recs of a plan from version from are consistent with the source.
Consistent(recs, from, up) ==
  \A i \in 1..Len(recs) :
    LET v == recs[i].version
        before == IF i = 1 THEN from ELSE recs[i - 1].target
    IN IF up
       THEN /\ recs[i].target = v
            /\ IF before = -1
               THEN HasFirst /\ v = sourceDrvFirst
               ELSE HasNext(before) /\ v = sourceDrvNext(before)
       ELSE /\ recs[i].target = (IF HasPrev(v) THEN sourceDrvPrev(v) ELSE -1)
            /\ v = before

\* C19: in what a planner sends, an up record has its own version as the
\* target and a down record the version before its own, or -1 when there is
\* none; the first record steps from the version the operation read, and each
\* later record from the target of the record before it.
C19_PlanIsConsistent ==
  \A c \in DOMAIN call :
    Consistent(SentRecords(call[c]), call[c].curVersion, UpPlan(planner[c]))

\* C19's cases: a plan of three steps down to the empty database.
C19_Witness ==
  \E c \in DOMAIN call :
    /\ ~UpPlan(planner[c])
    /\ Len(SentRecords(call[c])) >= 3
    /\ SentRecords(call[c])[Len(SentRecords(call[c]))].target = -1

\* What a planner has sent is records and then at most one error, and the
\* error is followed by the close; ret is closed when, and only when, the
\* planner has returned, with nothing left to send.
WellFormed(c) ==
  LET s == call[c].sent IN
  /\ \A i \in 1..(Len(s) - 1) : IsMigr(s[i])
  /\ (s # <<>> /\ ~IsMigr(s[Len(s)])) => ret[c].closed
  /\ ret[c].closed <=> planner[c].pc = "done"
  /\ ret[c].closed => planner[c].items = <<>>

\* C20: a planner sends zero or more records, then at most one error, and
\* closes ret once: nothing is sent after an error or after the close.
C20_ChannelProtocol ==
  /\ [](\A c \in DOMAIN call : WellFormed(c))
  /\ [][\A c \in DOMAIN call :
          (ret[c].closed /\ ret'[c].closed) =>
            /\ call'[c].sent = call[c].sent
            /\ \/ ret'[c].q = ret[c].q
               \/ ret[c].q # <<>> /\ ret'[c].q = Tail(ret[c].q)]_vars

\* C20's case: a planner sent two records and an error, and closed ret.
C20_Witness ==
  \E c \in DOMAIN call :
    /\ Len(call[c].sent) >= 3
    /\ ~IsMigr(call[c].sent[Len(call[c].sent)])
    /\ ret[c].closed

\* C21: every call of Migrate, Steps, Up, Down or Drop returns in the end,
\* whatever the capacity of ret and whether or not a stop signal is sent:
\* the runner never waits for ever in its receive.
C21_EveryCallReturns ==
  \A c \in OneCaller : Running(c) ~> (pc[c] = "idle" /\ call[c].returned)

\* C21's case: on a channel of capacity 0, an operation has returned after
\* a Run and after a stop signal that its planner, not its runner, took.
C21_Witness ==
  \E c \in OneCaller :
    /\ PrefetchMigrations = 0
    /\ Locked(call[c])
    /\ call[c].sigAt >= 0
    /\ ~call[c].stopped
    /\ isGracefulStop
    /\ Len(call[c].runs) >= 1

====
